---- MODULE Spec2Model ----
(***************************************************************************)
(* Model of rhub/api/lab/region.py: the region handlers, their access      *)
(* policy, the region <-> product association table and the quota usage    *)
(* aggregation of get_all_usage.                                           *)
(***************************************************************************)
EXTENDS Bags, FiniteSets, Integers, Sequences, TLC

\* ------------------------------------------------------------------ bounds
MaxRegion == 2
MaxProduct == 2
MaxVal == 1

RegionIds == 1..MaxRegion
\* a region id no row ever has (ids are handed out from 1)
RequestRegionIds == 0..MaxRegion
ProductIds == 1..MaxProduct
\* a product id no row has
RequestProductIds == 1..(MaxProduct + 1)

\* ------------------------------------------------------ users and groups
GroupIds == {"g1", "g2"}
NULL == "NULL"
Users == {"admin", "alice", "bob", "dave"}

\* rhub.auth.utils.user_is_admin
user_is_admin(user_id) == user_id = "admin"

\* rhub.auth.utils.user_group_ids
user_group_ids(user_id) ==
    CASE user_id = "admin" -> {"g1"}
      [] user_id = "alice" -> {"g1"}
      [] user_id = "bob" -> {"g2"}
      [] OTHER -> {}

\* -------------------------------------------------------- python values
\* None is the empty tuple, any other value v is <<v>>
None == <<>>
Some(v) == <<v>>
Truthy(x) == x # None /\ x[1] # 0

VARIABLES
    regions,          \* lab_region: id -> row, for the ids that exist
    next_id,          \* the serial of lab_region.id
    products,         \* lab_product: id -> row
    region_products,  \* lab_region_product: a bag of rows
    usage,            \* id -> what region_to_usage projects for the region
    session,          \* request slot -> the transaction it has open
    response          \* what the handler step just taken returned

vars == <<regions, next_id, products, region_products, usage, session, response>>

\* what the storage holds
db == <<regions, next_id, products, region_products, usage>>

Procs == {"p1", "p2"}

\* ------------------------------------------------------------ the tables
RegionRows == [owner_group_id : GroupIds, users_group_id : GroupIds \cup {NULL}]

Row(r, p, e) == [region_id |-> r, product_id |-> p, enabled |-> e]

\* the rows of table t that satisfy the set S of row values, as a bag
Restrict(t, S) == [x \in (DOMAIN t) \cap S |-> t[x]]
Without(t, S) == [x \in (DOMAIN t) \ S |-> t[x]]

\* RegionProduct.query.filter(region_id == r)
RowsOfRegion(t, r) == {x \in DOMAIN t : x.region_id = r}

\* RegionProduct.query.filter(and_(region_id == r, product_id == p))
RowsOfPair(t, r, p) == {x \in DOMAIN t : x.region_id = r /\ x.product_id = p}

\* q.count()
QueryCount(t, S) == BagCardinality(Restrict(t, S))

\* -------------------------------------------------------- access policy
MutantCanAccessNoOwner(region, user_id) ==
    IF user_is_admin(user_id) THEN TRUE
    ELSE IF region.users_group_id = NULL THEN TRUE
    ELSE region.users_group_id \in user_group_ids(user_id)

_user_can_access_region(region, user_id) ==
    IF user_is_admin(user_id) THEN TRUE
    ELSE IF region.users_group_id = NULL THEN TRUE
    ELSE LET user_groups == user_group_ids(user_id) IN
         region.users_group_id \in user_groups \/ region.owner_group_id \in user_groups

MutantCanModifyOwner(region, user_id) ==
    IF user_is_admin(user_id) THEN TRUE
    ELSE region.owner_group_id \in user_group_ids(user_id)

_user_can_modify_region(region, user_id) ==
    IF user_is_admin(user_id) THEN TRUE
    ELSE region.owner_group_id \notin user_group_ids(user_id)

\* SQL's three-valued logic, for the filter of the scoped query
SqlBool(b) == IF b THEN "true" ELSE "false"
SqlIsNull(x) == SqlBool(x = NULL)
SqlIn(x, S) == IF x = NULL THEN "unknown" ELSE SqlBool(x \in S)
SqlOr(vals) ==
    IF "true" \in vals THEN "true" ELSE IF "unknown" \in vals THEN "unknown" ELSE "false"

MutantQueryNoOwner(regs, user) ==
    IF user_is_admin(user) THEN DOMAIN regs
    ELSE LET user_groups == user_group_ids(user) IN
         {r \in DOMAIN regs :
            SqlOr({SqlIsNull(regs[r].users_group_id),
                   SqlIn(regs[r].users_group_id, user_groups)}) = "true"}

\* the ids of the rows the scoped query selects
_query_regions_with_permissions(regs, user) ==
    IF user_is_admin(user) THEN DOMAIN regs
    ELSE LET user_groups == user_group_ids(user) IN
         {r \in DOMAIN regs :
            SqlOr({SqlIsNull(regs[r].users_group_id),
                   SqlIn(regs[r].users_group_id, user_groups),
                   SqlIn(regs[r].owner_group_id, user_groups)}) = "true"}

\* ------------------------------------------------------------- responses
\* what a handler returned, with the request it answers; data is the payload
NoResponse ==
    [op |-> "none", user |-> "", region_id |-> 0, product_id |-> 0, status |-> "", data |-> <<>>]
Resp(op, user, region_id, status) ==
    [op |-> op, user |-> user, region_id |-> region_id, product_id |-> 0,
     status |-> status, data |-> <<>>]
RespP(op, user, region_id, product_id, status) ==
    [Resp(op, user, region_id, status) EXCEPT !.product_id = product_id]
RespD(op, user, region_id, status, data) ==
    [Resp(op, user, region_id, status) EXCEPT !.data = data]

Idle == [op |-> "idle"]

\* the request layer hands the handler's return value to the caller; the next
\* handler step is looked at after that
Ready == response = NoResponse

send_response ==
    /\ ~Ready
    /\ response' = NoResponse
    /\ UNCHANGED <<db, session>>

\* ------------------------------------------------- storage constraints
\* lab_region_product has the primary key (region_id, product_id)
NoPrimaryKey(t, row) == FALSE

PrimaryKeyViolation(t, row) == RowsOfPair(t, row.region_id, row.product_id) # {}

\* lab_region_product.region_id and .product_id reference their tables
ForeignKeyViolation(regs, prods, t) ==
    \E x \in DOMAIN t : x.region_id \notin DOMAIN regs \/ x.product_id \notin DOMAIN prods

\* ------------------------------------------------------------- handlers
\* model.Region.from_dict(body)
from_dict(body) ==
    [owner_group_id |-> body.owner_group_id, users_group_id |-> body.users_group_id]

\* region.update_from_dict(body): only the fields the body carries
update_from_dict(region, body) ==
    [f \in DOMAIN region |-> IF f \in DOMAIN body THEN body[f] ELSE region[f]]

UpdateBodies ==
    {b \in UNION {[D -> GroupIds \cup {NULL}] : D \in SUBSET {"owner_group_id", "users_group_id"}} :
        "owner_group_id" \in DOMAIN b => b.owner_group_id # NULL}

\* the request bodies of add_region_product: 'enabled' is optional
ProductBodies ==
    [id : RequestProductIds] \cup [id : RequestProductIds, enabled : BOOLEAN]

\* region_to_usage(region, user)
region_to_usage(region_id) == usage[region_id]

\* the checks every handler that modifies a region starts with
modify_check(regs, region_id, user) ==
    IF region_id \notin DOMAIN regs THEN "NotFound"
    ELSE IF ~_user_can_modify_region(regs[region_id], user) THEN "Forbidden"
    ELSE "pending"

\* the checks every handler that reads a region starts with
access_check(regs, region_id, user) ==
    IF region_id \notin DOMAIN regs THEN "NotFound"
    ELSE IF ~_user_can_access_region(regs[region_id], user) THEN "Forbidden"
    ELSE "ok"

MutantAddCheckProductFirst(regs, prods, region_id, body, user) ==
    IF region_id \notin DOMAIN regs \/ body.id \notin DOMAIN prods THEN "NotFound"
    ELSE IF ~_user_can_modify_region(regs[region_id], user) THEN "Forbidden"
    ELSE "pending"

\* add_region_product up to the product lookup
add_check(regs, prods, region_id, body, user) ==
    IF modify_check(regs, region_id, user) # "pending" THEN modify_check(regs, region_id, user)
    ELSE IF body.id \notin DOMAIN prods THEN "NotFound"
    ELSE "pending"

MutantAddWriteOverwrite(regs, prods, t, region_id, body, cnt) ==
    LET S == RowsOfPair(t, region_id, body.id)
        e == IF "enabled" \in DOMAIN body THEN body.enabled ELSE TRUE
        row == Row(region_id, body.id, e)
    IN  IF cnt = 0
        THEN IF PrimaryKeyViolation(t, row) \/ ForeignKeyViolation(regs, prods, t (+) SetToBag({row}))
             THEN [status |-> "error", table |-> t]
             ELSE [status |-> "ok", table |-> t (+) SetToBag({row})]
        ELSE IF S = {} THEN [status |-> "ok", table |-> t]
             ELSE [status |-> "ok",
                   table |-> Without(t, S) (+) [x \in {row} |-> QueryCount(t, S)]]

\* add_region_product from q.count() on: the insert or the update, and the commit
add_write(regs, prods, t, region_id, body, cnt) ==
    LET S == RowsOfPair(t, region_id, body.id) IN
    IF cnt = 0
    THEN LET row == Row(region_id, body.id,
                        IF "enabled" \in DOMAIN body THEN body.enabled ELSE TRUE)
         IN  IF PrimaryKeyViolation(t, row) \/ ForeignKeyViolation(regs, prods, t (+) SetToBag({row}))
             THEN [status |-> "error", table |-> t]
             ELSE [status |-> "ok", table |-> t (+) SetToBag({row})]
    ELSE IF "enabled" \in DOMAIN body /\ S # {}
    THEN [status |-> "ok",
          table |-> Without(t, S) (+) [x \in {Row(region_id, body.id, body.enabled)} |-> QueryCount(t, S)]]
    ELSE [status |-> "ok", table |-> t]

\* the rows a session deletes are deleted by their primary key
SamePair(t, seen) ==
    {x \in DOMAIN t : \E s \in seen : s.region_id = x.region_id /\ s.product_id = x.product_id}

MutantDeleteFlushCommits(t, seen) == Without(t, SamePair(t, seen))

\* delete_region's db.session.flush(): the deletes stay inside the transaction
delete_flush(t, seen) == t

\* delete_region from db.session.delete(region) on
delete_write(regs, prods, t, region_id, seen) ==
    LET t2 == Without(t, SamePair(t, seen))
        regs2 == [x \in DOMAIN regs \ {region_id} |-> regs[x]]
    IN  IF ForeignKeyViolation(regs2, prods, t2)
        THEN [status |-> "error", error |-> "IntegrityError", regions |-> regs, table |-> t]
        ELSE [status |-> "ok", error |-> <<>>, regions |-> regs2, table |-> t2]

\* --------------------------------------------------------- usage views
LimitKeys == {"num_vcpus", "ram_mb"}
SubFields == {"user_quota", "user_quota_usage", "total_quota", "total_quota_usage"}
Values == {None} \cup {Some(n) : n \in 0..MaxVal}
\* a quota or usage mapping, or None
Dicts == UNION {[D -> Values] : D \in SUBSET LimitKeys}
FieldVals == {None} \cup {Some(d) : d \in Dicts}
FullDict == [k \in LimitKeys |-> Some(1)]
DefaultView == [f \in SubFields |-> Some(FullDict)]

\* ------------------------------------------------------ get_all_usage
\* the outcome of a python expression: a value, or an exception that is not caught
Returned(v) == [raised |-> FALSE, value |-> v]
Raised == [raised |-> TRUE, value |-> None]

\* one pass of add_usage's loop body for key, usage1 being a mapping
add_usage_key(d1, usage2, key) ==
    IF usage2 # None /\ key \in DOMAIN usage2[1] /\ d1[key] # None /\ usage2[1][key] # None
    THEN Returned(Some(d1[key][1] + usage2[1][key][1]))
    ELSE IF Truthy(d1[key]) THEN Returned(d1[key])
    ELSE IF usage2 = None \/ key \notin DOMAIN usage2[1] THEN Raised
    ELSE IF Truthy(usage2[1][key]) THEN Returned(usage2[1][key])
    ELSE Returned(None)

add_usage(usage1, usage2) ==
    IF usage1 = None THEN Raised
    ELSE LET d1 == usage1[1] IN
         IF \E key \in DOMAIN d1 : add_usage_key(d1, usage2, key).raised
         THEN Raised
         ELSE Returned(Some([key \in DOMAIN d1 |-> add_usage_key(d1, usage2, key).value]))

\* the four add_usage calls of one loop iteration
add_usage_view(all, current) ==
    IF \E f \in SubFields : add_usage(all[f], current[f]).raised
    THEN Raised
    ELSE Returned([f \in SubFields |-> add_usage(all[f], current[f]).value])

\* data['all'] after the loop has run from index i on, all being its value so far
RECURSIVE fold_usage(_, _, _)
fold_usage(all, order, i) ==
    IF i > Len(order) THEN Returned(all)
    ELSE LET step == add_usage_view(all, region_to_usage(order[i])) IN
         IF step.raised THEN Raised ELSE fold_usage(step.value, order, i + 1)

\* the sequences a query without ORDER BY may list the rows S in
Orderings(S) ==
    {o \in [1..Cardinality(S) -> S] : \A i, j \in 1..Cardinality(S) : i # j => o[i] # o[j]}

\* a fold whose loop starts at the first region again
MutantAllUsageLoopFromFirst(order) ==
    IF Len(order) = 0 THEN [status |-> "NotFound", data |-> <<>>]
    ELSE LET all == fold_usage(region_to_usage(order[1]), order, 1) IN
         IF all.raised THEN [status |-> "error", data |-> <<>>]
         ELSE [status |-> "ok",
               data |-> [all |-> all.value,
                         regions |-> [r \in {order[i] : i \in 1..Len(order)} |->
                                         region_to_usage(r)]]]

\* what get_all_usage returns when the query lists the regions as order
all_usage_result(order) ==
    IF Len(order) = 0 THEN [status |-> "NotFound", data |-> <<>>]
    ELSE LET all == fold_usage(region_to_usage(order[1]), order, 2) IN
         IF all.raised THEN [status |-> "error", data |-> <<>>]
         ELSE [status |-> "ok",
               data |-> [all |-> all.value,
                         regions |-> [r \in {order[i] : i \in 1..Len(order)} |->
                                         region_to_usage(r)]]]

get_all_usage(user, order) ==
    /\ Ready
    /\ order \in Orderings(_query_regions_with_permissions(regions, user))
    /\ response' = RespD("get_all_usage", user, 0,
                         all_usage_result(order).status, all_usage_result(order).data)
    /\ UNCHANGED <<db, session>>

\* ----------------------------------------------------------- list_regions
\* a text is a tuple of characters
lower(c) == IF c = "A" THEN "a" ELSE IF c = "B" THEN "b" ELSE c
to_lower(text) == [i \in DOMAIN text |-> lower(text[i])]

\* text LIKE pattern: % stands for any run of characters, _ for any one
RECURSIVE like(_, _)
like(text, pattern) ==
    IF pattern = <<>> THEN text = <<>>
    ELSE IF Head(pattern) = "%"
    THEN like(text, Tail(pattern)) \/ (text # <<>> /\ like(Tail(text), pattern))
    ELSE /\ text # <<>>
         /\ Head(pattern) = "_" \/ Head(pattern) = Head(text)
         /\ like(Tail(text), Tail(pattern))

ilike(text, pattern) == like(to_lower(text), to_lower(pattern))

\* the order of ORDER BY on a text column
char_code(c) == CASE c = "A" -> 65 [] c = "B" -> 66 [] c = "a" -> 97 [] c = "b" -> 98 [] OTHER -> 0
RECURSIVE text_le(_, _)
text_le(a, b) ==
    IF a = <<>> THEN TRUE
    ELSE IF b = <<>> THEN FALSE
    ELSE IF Head(a) # Head(b) THEN char_code(Head(a)) < char_code(Head(b))
    ELSE text_le(Tail(a), Tail(b))

\* lab_location and auth_group, which no handler of this file writes
LocationIds == {"l1"}
Location == [l \in LocationIds |-> [name |-> <<"A", "b">>]]
Group == [g \in GroupIds |-> [name |-> IF g = "g1" THEN "owners" ELSE "users"]]

\* lab_region.name is unique
RegionName(r) ==
    IF r = 1 THEN <<"a">> ELSE IF r = 2 THEN <<"A">>
    ELSE [i \in 1..r |-> IF i = 1 THEN "a" ELSE "b"]

\* the columns list_regions reads besides the two groups
Columns(r) ==
    [name : {RegionName(r)}, enabled : BOOLEAN, reservations_enabled : BOOLEAN,
     location_id : LocationIds \cup {NULL}]
DefaultColumns(r) ==
    [name |-> RegionName(r), enabled |-> TRUE, reservations_enabled |-> TRUE,
     location_id |-> NULL]

SqlEq(x, v) == IF x = NULL THEN "unknown" ELSE SqlBool(x = v)

\* an inner join, which has no row for a region without a location
MutantInnerJoin(regs, S) ==
    {j \in [region : S, location : LocationIds] : j.location = regs[j.region].location_id}

\* regions.outerjoin(model.Location, Location.id == Region.location_id): a row
\* for every match, and a row with a NULL location for a region without one
outerjoin_location(regs, S) ==
    {j \in [region : S, location : LocationIds] : j.location = regs[j.region].location_id}
    \cup {[region |-> r, location |-> NULL] :
             r \in {x \in S : \A l \in LocationIds : l # regs[x].location_id}}

\* the WHERE clause the supplied filters add up to, for the joined row j
filter_where(regs, j, filter_) ==
    LET region == regs[j.region] IN
    /\ "name" \in DOMAIN filter_ => ilike(region.name, filter_["name"])
    /\ "location" \in DOMAIN filter_ =>
           /\ j.location # NULL
           /\ ilike(Location[j.location].name, filter_["location"])
    /\ "enabled" \in DOMAIN filter_ => region.enabled = filter_["enabled"]
    /\ "reservations_enabled" \in DOMAIN filter_ =>
           region.reservations_enabled = filter_["reservations_enabled"]
    /\ "owner_group_id" \in DOMAIN filter_ =>
           SqlEq(region.owner_group_id, filter_["owner_group_id"]) = "true"
    /\ "owner_group_name" \in DOMAIN filter_ =>
           /\ region.owner_group_id \in GroupIds
           /\ Group[region.owner_group_id].name = filter_["owner_group_name"]
    /\ "users_group_id" \in DOMAIN filter_ =>
           SqlEq(region.users_group_id, filter_["users_group_id"]) = "true"
    /\ "users_group_name" \in DOMAIN filter_ =>
           /\ region.users_group_id \in GroupIds
           /\ Group[region.users_group_id].name = filter_["users_group_name"]

\* the rows of the query list_regions builds, before sort, limit and offset
list_regions_query(regs, user, filter_) ==
    {j \in outerjoin_location(regs, _query_regions_with_permissions(regs, user)) :
        filter_where(regs, j, filter_)}

\* rhub.api.utils.db_sort: ORDER BY the column the sort name stands for; the
\* place of the NULLs is the storage engine's
db_sort(regs, order, sort) ==
    \/ sort = None
    \/ /\ sort = Some("name")
       /\ \A i, k \in 1..Len(order) :
              i < k => text_le(regs[order[i].region].name, regs[order[k].region].name)
    \/ /\ sort = Some("location")
       /\ \E nulls_first \in BOOLEAN :
              \A i, k \in 1..Len(order) :
                  i < k =>
                      IF order[i].location = NULL
                      THEN nulls_first \/ order[k].location = NULL
                      ELSE IF order[k].location = NULL THEN ~nulls_first
                      ELSE text_le(Location[order[i].location].name,
                                   Location[order[k].location].name)

\* regions.limit(limit).offset(page * limit), the rows coming as order
limit_offset(order, page, limit) ==
    SubSeq(order, page * limit + 1,
           IF page * limit + limit < Len(order) THEN page * limit + limit ELSE Len(order))

EmptyFilter == <<>>

\* order is the sequence the storage lists the rows of the query in; the
\* response keeps the request next to the answer
list_regions(user, filter_, sort, page, limit) ==
    /\ Ready
    /\ LET rows == list_regions_query(regions, user, filter_) IN
       \E order \in Orderings(rows) :
           /\ db_sort(regions, order, sort)
           /\ LET shown == limit_offset(order, page, limit) IN
              response' = RespD("list_regions", user, 0, "ok",
                                [data |-> [i \in 1..Len(shown) |-> shown[i].region],
                                 total |-> Cardinality(rows),
                                 request |-> [filter_ |-> filter_, page |-> page,
                                              limit |-> limit]])
    /\ UNCHANGED <<db, session>>

\* ------------------------------------------------- handlers, one request
create_region(user, body) ==
    /\ Ready
    /\ next_id <= MaxRegion
    /\ regions' = (next_id :> from_dict(body)) @@ regions
    /\ next_id' = next_id + 1
    /\ response' = Resp("create_region", user, next_id, "ok")
    /\ UNCHANGED <<products, region_products, usage, session>>

get_region(user, region_id) ==
    /\ Ready
    /\ LET c == access_check(regions, region_id, user) IN
       response' = RespD("get_region", user, region_id, c,
                         IF c = "ok" THEN regions[region_id] ELSE <<>>)
    /\ UNCHANGED <<db, session>>

update_region(user, region_id, body) ==
    LET c == modify_check(regions, region_id, user) IN
    /\ Ready
    /\ IF c # "pending"
       THEN /\ response' = Resp("update_region", user, region_id, c)
            /\ UNCHANGED regions
       ELSE /\ regions' = [regions EXCEPT ![region_id] = update_from_dict(@, body)]
            /\ response' = Resp("update_region", user, region_id, "ok")
    /\ UNCHANGED <<next_id, products, region_products, usage, session>>

delete_region(user, region_id) ==
    LET c == modify_check(regions, region_id, user)
        seen == RowsOfRegion(region_products, region_id)
        w == delete_write(regions, products, delete_flush(region_products, seen),
                          region_id, seen)
    IN
    /\ Ready
    /\ IF c # "pending"
       THEN /\ response' = Resp("delete_region", user, region_id, c)
            /\ UNCHANGED <<regions, region_products>>
       ELSE /\ regions' = w.regions
            /\ region_products' = w.table
            /\ response' = RespD("delete_region", user, region_id, w.status, w.error)
    /\ UNCHANGED <<next_id, products, usage, session>>

\* region.products_relation: the association rows of the region, joined with
\* their products
products_relation(table, region_id) == RowsOfRegion(table, region_id)

\* the storage engines a build runs on, and the text a boolean bound as an
\* ILIKE pattern is to the one that accepts it
Engines == {"postgresql", "sqlite"}
bool_text(b) == IF b THEN <<"1">> ELSE <<"0">>

\* the rows list_region_products iterates over, or the exception on the way
products_query(regs, prods, table, region_id, filter_, engine) ==
    IF "name" \in DOMAIN filter_ /\ "enabled" \notin DOMAIN filter_
    THEN Raised                                     \* KeyError: filter_['enabled']
    ELSE IF "name" \in DOMAIN filter_ /\ engine = "postgresql"
    THEN Raised                                     \* no operator ILIKE for a boolean
    ELSE Returned(
        {row \in products_relation(table, region_id) :
            /\ "name" \in DOMAIN filter_ =>
                   \E x \in DOMAIN regs : ilike(regs[x].name, bool_text(filter_["enabled"]))
            /\ "enabled" \in DOMAIN filter_ =>
                   prods[row.product_id].enabled = filter_["enabled"]})

\* the response keeps the request next to the answer
list_region_products(user, region_id, filter_) ==
    /\ Ready
    /\ LET c == access_check(regions, region_id, user) IN
       IF c # "ok"
       THEN response' = RespD("list_region_products", user, region_id, c, <<>>)
       ELSE \E engine \in Engines :
               LET q == products_query(regions, products, region_products, region_id,
                                       filter_, engine)
               IN  response' =
                       IF q.raised
                       THEN RespD("list_region_products", user, region_id, "error", <<>>)
                       ELSE RespD("list_region_products", user, region_id, "ok",
                                  [rows |-> Restrict(region_products, q.value),
                                   request |-> [filter_ |-> filter_]])
    /\ UNCHANGED <<db, session>>

add_region_product(user, region_id, body) ==
    LET c == add_check(regions, products, region_id, body, user)
        cnt == QueryCount(region_products, RowsOfPair(region_products, region_id, body.id))
        w == add_write(regions, products, region_products, region_id, body, cnt)
    IN
    /\ Ready
    /\ IF c # "pending"
       THEN /\ response' = RespP("add_region_product", user, region_id, body.id, c)
            /\ UNCHANGED region_products
       ELSE /\ region_products' = w.table
            /\ response' = RespP("add_region_product", user, region_id, body.id, w.status)
    /\ UNCHANGED <<regions, next_id, products, usage, session>>

delete_region_product(user, region_id, product_id) ==
    LET c == add_check(regions, products, region_id, [id |-> product_id], user)
        S == RowsOfPair(region_products, region_id, product_id)
    IN
    /\ Ready
    /\ IF c # "pending"
       THEN /\ response' = RespP("delete_region_product", user, region_id, product_id, c)
            /\ UNCHANGED region_products
       ELSE /\ region_products' = Without(region_products, S)
            /\ response' = RespP("delete_region_product", user, region_id, product_id, "ok")
    /\ UNCHANGED <<regions, next_id, products, usage, session>>

get_usage(user, region_id) ==
    /\ Ready
    /\ LET c == access_check(regions, region_id, user) IN
       response' = RespD("get_usage", user, region_id, c,
                         IF c = "ok" THEN region_to_usage(region_id) ELSE <<>>)
    /\ UNCHANGED <<db, session>>

\* ------------------------------------------ one request after the other
Init ==
    /\ regions = <<>>
    /\ next_id = 1
    /\ products = (1 :> [enabled |-> TRUE])
    /\ region_products = EmptyBag
    /\ usage = [r \in RegionIds |-> DefaultView]
    /\ session = [p \in Procs |-> Idle]
    /\ response = NoResponse

Next ==
    \/ send_response
    \/ \E user \in Users :
        \/ \E body \in RegionRows : create_region(user, body)
        \/ \E region_id \in RequestRegionIds :
            \/ get_region(user, region_id)
            \/ get_usage(user, region_id)
            \/ list_region_products(user, region_id, EmptyFilter)
            \/ \E body \in UpdateBodies : update_region(user, region_id, body)
            \/ delete_region(user, region_id)
            \/ \E body \in ProductBodies : add_region_product(user, region_id, body)
            \/ \E product_id \in RequestProductIds :
                    delete_region_product(user, region_id, product_id)

Spec == Init /\ [][Next]_vars

\* ---------------------------------- reads over any region collection
\* a view with every quota set, and one of a region without a user quota
ScopeViews == {DefaultView, [DefaultView EXCEPT !["user_quota"] = None]}

Collections == UNION {[D -> RegionRows] : D \in SUBSET RegionIds}

InitUsage ==
    /\ regions \in {[r \in DOMAIN c |-> c[r] @@ DefaultColumns(r)] : c \in Collections}
    /\ next_id = MaxRegion + 1
    /\ products = (1 :> [enabled |-> TRUE])
    /\ region_products = EmptyBag
    /\ usage \in [RegionIds -> ScopeViews]
    /\ \A r \in RegionIds \ DOMAIN regions : usage[r] = DefaultView
    /\ session = [p \in Procs |-> Idle]
    /\ response = NoResponse

NextUsage ==
    \/ send_response
    \/ \E user \in Users :
        \/ \E order \in Orderings(_query_regions_with_permissions(regions, user)) :
               get_all_usage(user, order)
        \/ list_regions(user, EmptyFilter, None, 0, MaxRegion)
        \/ \E region_id \in RequestRegionIds : get_region(user, region_id)

SpecUsage == InitUsage /\ [][NextUsage]_vars

\* ------------------------------------ the merge over any usage views
\* user_quota takes every shape; total_quota_usage is there or not
MergeViews ==
    {[DefaultView EXCEPT !["user_quota"] = a, !["total_quota_usage"] = b] :
        a \in FieldVals, b \in {None, Some(FullDict)}}

InitMerge ==
    /\ regions \in UNION {[D -> {[owner_group_id |-> "g1", users_group_id |-> NULL]}] :
                             D \in SUBSET RegionIds}
    /\ next_id = MaxRegion + 1
    /\ products = (1 :> [enabled |-> TRUE])
    /\ region_products = EmptyBag
    /\ usage \in [RegionIds -> MergeViews]
    /\ \A r \in RegionIds \ DOMAIN regions : usage[r] = DefaultView
    /\ session = [p \in Procs |-> Idle]
    /\ response = NoResponse

NextMerge ==
    \/ send_response
    \/ \E order \in Orderings(_query_regions_with_permissions(regions, "dave")) :
            get_all_usage("dave", order)

SpecMerge == InitMerge /\ [][NextMerge]_vars

\* ------------------------------------- list_regions over any columns
\* every region is owned by g1; it is shared or has g2 as its users group
ListRows(r) ==
    {own @@ cols : own \in [owner_group_id : {"g1"}, users_group_id : {NULL, "g2"}],
                   cols \in {c \in Columns(r) : c.reservations_enabled}}
ListCollections ==
    UNION {{c \in [D -> UNION {ListRows(r) : r \in D}] : \A r \in D : c[r] \in ListRows(r)} :
              D \in SUBSET RegionIds}

FilterKeys ==
    {"name", "location", "enabled", "reservations_enabled", "owner_group_id",
     "owner_group_name", "users_group_id", "users_group_name"}
FilterValues(key) ==
    CASE key = "name" -> {<<"a">>, <<"a", "%">>}
      [] key = "location" -> {<<"a", "_">>}
      [] key = "enabled" -> BOOLEAN
      [] key = "reservations_enabled" -> BOOLEAN
      [] key = "owner_group_id" -> {"g1"}
      [] key = "owner_group_name" -> {"owners"}
      [] key = "users_group_id" -> {"g2"}
      [] key = "users_group_name" -> {"users"}
\* the filter mappings with no, one or two of the keys
Filters ==
    {EmptyFilter}
    \cup UNION {{k :> v : v \in FilterValues(k)} : k \in FilterKeys}
    \cup UNION {{(pair[1] :> v1) @@ (pair[2] :> v2) :
                    v1 \in FilterValues(pair[1]), v2 \in FilterValues(pair[2])} :
                   pair \in {p \in FilterKeys \X FilterKeys : p[1] # p[2]}}
Sorts == {None, Some("name"), Some("location")}
Pages == {0, 1}
Limits == {1, 2}
ListUsers == {"admin", "dave"}

InitList ==
    /\ regions \in ListCollections
    /\ next_id = MaxRegion + 1
    /\ products = (1 :> [enabled |-> TRUE])
    /\ region_products = EmptyBag
    /\ usage = [r \in RegionIds |-> DefaultView]
    /\ session = [p \in Procs |-> Idle]
    /\ response = NoResponse

NextList ==
    \/ send_response
    \/ \E user \in ListUsers, filter_ \in Filters, sort \in Sorts, page \in Pages, limit \in Limits :
            list_regions(user, filter_, sort, page, limit)

SpecList == InitList /\ [][NextList]_vars

\* --------------------------- list_region_products over any associations
\* lab_product.name is unique
ProductName(p) == IF p = 1 THEN <<"a">> ELSE [i \in 1..p |-> "b"]
ProductRows(p) == [name : {ProductName(p)}, enabled : BOOLEAN]

\* region 1 is read by its groups g1 and g2 only, region 2 is shared
ProductRegions ==
    (1 :> ([owner_group_id |-> "g1", users_group_id |-> "g2"] @@ DefaultColumns(1)))
    @@ (2 :> ([owner_group_id |-> "g1", users_group_id |-> NULL] @@ DefaultColumns(2)))

\* region 1 has any association with any product, each pair at most once;
\* region 2 has none or the first product
ProductTables ==
    {SetToBag(S \cup T) :
        S \in {X \in SUBSET {Row(1, p, e) : p \in ProductIds, e \in BOOLEAN} :
                  \A x, y \in X : x.product_id = y.product_id => x = y},
        T \in {{}, {Row(2, 1, TRUE)}}}

ProductFilters ==
    {EmptyFilter}
    \cup {"name" :> v : v \in {<<"a">>, <<"b", "%">>}}
    \cup {"enabled" :> e : e \in BOOLEAN}
    \cup {("name" :> v) @@ ("enabled" :> e) : v \in {<<"a">>, <<"b", "%">>}, e \in BOOLEAN}
ProductUsers == {"admin", "bob", "dave"}

InitProducts ==
    /\ regions = ProductRegions
    /\ next_id = 3
    /\ products \in {f \in [ProductIds -> UNION {ProductRows(p) : p \in ProductIds}] :
                        \A p \in ProductIds : f[p] \in ProductRows(p)}
    /\ region_products \in ProductTables
    /\ usage = [r \in RegionIds |-> DefaultView]
    /\ session = [p \in Procs |-> Idle]
    /\ response = NoResponse

NextProducts ==
    \/ send_response
    \/ \E user \in ProductUsers, region_id \in RequestRegionIds, filter_ \in ProductFilters :
            list_region_products(user, region_id, filter_)

SpecProducts == InitProducts /\ [][NextProducts]_vars

\* ------------------------------------- requests that run side by side
\* a request slot runs add_region_product up to q.count() and keeps its
\* transaction open
add_region_product_begin(p, user, region_id, body) ==
    LET c == add_check(regions, products, region_id, body, user)
        cnt == QueryCount(region_products, RowsOfPair(region_products, region_id, body.id))
    IN
    /\ Ready
    /\ session[p] = Idle
    /\ IF c # "pending"
       THEN /\ response' = RespP("add_region_product", user, region_id, body.id, c)
            /\ UNCHANGED session
       ELSE /\ session' = [session EXCEPT ![p] =
                              [op |-> "add_region_product", user |-> user,
                               region_id |-> region_id, body |-> body, cnt |-> cnt]]
            /\ response' = NoResponse
    /\ UNCHANGED db

\* the rest of add_region_product: the insert or the update, and the commit
add_region_product_commit(p) ==
    LET s == session[p]
        w == add_write(regions, products, region_products, s.region_id, s.body, s.cnt)
    IN
    /\ Ready
    /\ s.op = "add_region_product"
    /\ region_products' = w.table
    /\ response' = RespP("add_region_product", s.user, s.region_id, s.body.id, w.status)
    /\ session' = [session EXCEPT ![p] = Idle]
    /\ UNCHANGED <<regions, next_id, products, usage>>

\* delete_region up to db.session.flush()
delete_region_begin(p, user, region_id) ==
    LET c == modify_check(regions, region_id, user)
        seen == RowsOfRegion(region_products, region_id)
    IN
    /\ Ready
    /\ session[p] = Idle
    /\ IF c # "pending"
       THEN /\ response' = Resp("delete_region", user, region_id, c)
            /\ UNCHANGED <<session, region_products>>
       ELSE /\ session' = [session EXCEPT ![p] =
                              [op |-> "delete_region", user |-> user,
                               region_id |-> region_id, seen |-> seen]]
            /\ region_products' = delete_flush(region_products, seen)
            /\ response' = NoResponse
    /\ UNCHANGED <<regions, next_id, products, usage>>

\* db.session.delete(region) and db.session.commit()
delete_region_commit(p) ==
    LET s == session[p]
        w == delete_write(regions, products, region_products, s.region_id, s.seen)
    IN
    /\ Ready
    /\ s.op = "delete_region"
    /\ regions' = w.regions
    /\ region_products' = w.table
    /\ response' = RespD("delete_region", s.user, s.region_id, w.status, w.error)
    /\ session' = [session EXCEPT ![p] = Idle]
    /\ UNCHANGED <<next_id, products, usage>>

\* the storage fails before the commit: the transaction is rolled back
delete_region_fail(p) ==
    /\ Ready
    /\ session[p].op = "delete_region"
    /\ response' = RespD("delete_region", session[p].user, session[p].region_id,
                         "error", "OperationalError")
    /\ session' = [session EXCEPT ![p] = Idle]
    /\ UNCHANGED db

TxnUsers == {"admin", "alice"}

InitTxn ==
    /\ regions = (1 :> [owner_group_id |-> "g1", users_group_id |-> NULL])
    /\ next_id = 2
    /\ products = [p \in ProductIds |-> [enabled |-> TRUE]]
    /\ region_products = EmptyBag
    /\ usage = [r \in RegionIds |-> DefaultView]
    /\ session = [p \in Procs |-> Idle]
    /\ response = NoResponse

NextTxn ==
    \/ send_response
    \/ \E p \in Procs :
        \/ add_region_product_commit(p)
        \/ delete_region_commit(p)
        \/ delete_region_fail(p)
        \/ \E user \in TxnUsers, region_id \in RequestRegionIds :
            \/ \E body \in ProductBodies : add_region_product_begin(p, user, region_id, body)
            \/ delete_region_begin(p, user, region_id)
    \/ \E user \in TxnUsers, region_id \in RequestRegionIds, product_id \in RequestProductIds :
            delete_region_product(user, region_id, product_id)

SpecTxn == InitTxn /\ [][NextTxn]_vars

\* ------------------------------------------------------------- the claims
WriteOps == {"update_region", "delete_region", "add_region_product", "delete_region_product"}
ReadOps == {"get_region", "get_usage", "list_region_products"}
ProductOps == {"add_region_product", "delete_region_product"}

InOwnerGroup(regs, region_id, user) == regs[region_id].owner_group_id \in user_group_ids(user)
InUsersGroup(regs, region_id, user) == regs[region_id].users_group_id \in user_group_ids(user)

C1_WritePolicyStep ==
    (response'.op \in WriteOps /\ response'.region_id \in DOMAIN regions) =>
        /\ response'.status = "Forbidden" <=>
               (~user_is_admin(response'.user)
                /\ InOwnerGroup(regions, response'.region_id, response'.user))
        /\ response'.status = "Forbidden" =>
               (regions' = regions /\ region_products' = region_products)

\* C1: a write to an existing region is refused with Forbidden exactly when the
\* caller is no admin and belongs to the region's owner group, and a refused
\* write leaves every region and every association row as it was.
C1_WritePolicy == [][C1_WritePolicyStep]_vars

\* an owner-group member who is no admin was refused while the region has a row
C1_Witness ==
    /\ response.op = "delete_region" /\ response.status = "Forbidden"
    /\ response.region_id \in DOMAIN regions
    /\ ~user_is_admin(response.user)
    /\ InOwnerGroup(regions, response.region_id, response.user)
    /\ RowsOfRegion(region_products, response.region_id) # {}

\* C2 as claimed: a read of an existing region succeeds when the caller is an
\* admin, the region is shared, or the caller is in its users group or its
\* owner group, and is refused with Forbidden in every other case.
C2_ReadPolicy ==
    (response.op \in ReadOps /\ response.region_id \in DOMAIN regions) =>
        IF \/ user_is_admin(response.user)
           \/ regions[response.region_id].users_group_id = NULL
           \/ InUsersGroup(regions, response.region_id, response.user)
           \/ InOwnerGroup(regions, response.region_id, response.user)
        THEN response.status = "ok"
        ELSE response.status = "Forbidden"

\* a caller in neither group of a region that is not shared was refused its usage
C2_Witness ==
    /\ response.op = "get_usage" /\ response.status = "Forbidden"
    /\ response.region_id \in DOMAIN regions
    /\ regions[response.region_id].users_group_id # NULL
    /\ ~InUsersGroup(regions, response.region_id, response.user)
    /\ ~InOwnerGroup(regions, response.region_id, response.user)

\* what add_region_product must have done to the table for the pair of the body
C5_Upsert(t, t2, region_id, body) ==
    LET S == RowsOfPair(t, region_id, body.id)
        S2 == RowsOfPair(t2, region_id, body.id)
    IN  /\ Without(t2, S2) = Without(t, S)
        /\ IF S = {}
           THEN Restrict(t2, S2) =
                    SetToBag({Row(region_id, body.id,
                                  IF "enabled" \in DOMAIN body THEN body.enabled ELSE TRUE)})
           ELSE IF "enabled" \notin DOMAIN body
           THEN t2 = t
           ELSE /\ S2 = {Row(region_id, body.id, body.enabled)}
                /\ QueryCount(t2, S2) = QueryCount(t, S)

C5_UpsertStep ==
    response'.op = "add_region_product" =>
        \A body \in ProductBodies :
            (/\ body.id = response'.product_id
             /\ add_region_product(response'.user, response'.region_id, body)
             /\ add_check(regions, products, response'.region_id, body, response'.user) = "pending")
            => /\ response'.status = "ok"
               /\ C5_Upsert(region_products, region_products', response'.region_id, body)
               /\ regions' = regions
               /\ products' = products

\* C5: a permitted add_region_product on an existing region and product inserts
\* the row (enabled as supplied, else true) when the pair has none, leaves an
\* existing row as it was when the body has no 'enabled', and otherwise changes
\* only that row's enabled flag; no other row, region or product changes.
C5_PartialUpsert == [][C5_UpsertStep]_vars

\* an add has answered ok while the pair's row is disabled and another row exists
C5_Witness ==
    /\ response.op = "add_region_product" /\ response.status = "ok"
    /\ Row(response.region_id, response.product_id, FALSE) \in DOMAIN region_products
    /\ \E x \in DOMAIN region_products : x.region_id # response.region_id

C10_OriginalStep ==
    (/\ response'.op \in WriteOps \cup ReadOps
     /\ \/ response'.region_id \notin DOMAIN regions
        \/ (response'.op \in ProductOps /\ response'.product_id \notin DOMAIN products))
    => (response'.status = "NotFound" /\ db' = db)

\* C10 as claimed: a call that names a region id or a product id that does not
\* exist answers NotFound for every caller and changes no state.
C10_Original == [][C10_OriginalStep]_vars

C10_ExistenceFirstStep ==
    /\ (response'.op \in WriteOps \cup ReadOps /\ response'.region_id \notin DOMAIN regions)
           => (response'.status = "NotFound" /\ db' = db)
    /\ (/\ response'.op \in ProductOps
        /\ response'.region_id \in DOMAIN regions
        /\ response'.product_id \notin DOMAIN products)
           => /\ db' = db
              /\ response'.status =
                     IF \/ user_is_admin(response'.user)
                        \/ ~InOwnerGroup(regions, response'.region_id, response'.user)
                     THEN "NotFound" ELSE "Forbidden"

\* C10: a call that names a region id that does not exist answers NotFound for
\* every caller; a call on an existing region that names a product id that does
\* not exist answers NotFound when the caller may modify the region and
\* Forbidden when not; neither changes any state.
C10_ExistenceFirst == [][C10_ExistenceFirstStep]_vars

\* an owner-group member was refused an add that names a product that does not exist
C10_Witness ==
    /\ response.op = "add_region_product" /\ response.status = "Forbidden"
    /\ response.region_id \in DOMAIN regions
    /\ response.product_id \notin DOMAIN products

\* C4: no (region_id, product_id) pair ever has more than one row, whatever
\* the interleaving of add_region_product, delete_region_product and
\* delete_region.
C4_PairUnique ==
    \A x \in DOMAIN region_products :
        QueryCount(region_products,
                   RowsOfPair(region_products, x.region_id, x.product_id)) <= 1

\* the second of two adds of one pair was rejected while the first one's row stands
C4_Witness ==
    /\ response.op = "add_region_product" /\ response.status = "error"
    /\ RowsOfPair(region_products, response.region_id, response.product_id) # {}

NoOrphans(regs, t) == \A x \in DOMAIN t : x.region_id \in DOMAIN regs

C6_AllOrNothingStep ==
    /\ (response'.op = "delete_region" /\ response'.status = "ok")
           => /\ response'.region_id \notin DOMAIN regions'
              /\ RowsOfRegion(region_products', response'.region_id) = {}
    /\ (response'.op = "delete_region" /\ response'.status # "ok") => db' = db
    /\ response'.op = "none" => db' = db
    /\ NoOrphans(regions', region_products')

\* C6: a delete_region that commits leaves neither the region nor a row that
\* references it; a delete_region that does not commit, and every step before
\* a commit, leaves the regions and the rows as they were; no state holds a row
\* whose region is gone, also when an add_region_product ran in between.
C6_AllOrNothing == [][C6_AllOrNothingStep]_vars

\* the commit of a delete_region was rejected because an add_region_product
\* for its region committed after the cascade query: region and row are there
C6_Witness ==
    /\ response.op = "delete_region" /\ response.status = "error"
    /\ response.data = "IntegrityError"
    /\ response.region_id \in DOMAIN regions
    /\ RowsOfRegion(region_products, response.region_id) # {}

\* the regions the claimed scope holds for the caller
C3_Scope(user) ==
    IF user_is_admin(user) THEN DOMAIN regions
    ELSE {r \in DOMAIN regions :
            \/ regions[r].users_group_id = NULL
            \/ InUsersGroup(regions, r, user)
            \/ InOwnerGroup(regions, r, user)}

\* C3: the regions list_regions (no filters) lists, and the regions
\* get_all_usage has an entry for, are every region for an admin and else the
\* regions that are shared or whose users group or owner group the caller is
\* in: exactly those get_region does not refuse the caller.
C3_ScopedSet ==
    /\ response.op = "list_regions" =>
           /\ {response.data.data[i] : i \in DOMAIN response.data.data} =
                  C3_Scope(response.user)
           /\ response.data.total = Cardinality(C3_Scope(response.user))
    /\ (response.op = "get_all_usage" /\ response.status = "ok") =>
           DOMAIN response.data.regions = C3_Scope(response.user)
    /\ response.op \in {"list_regions", "get_all_usage"} =>
           C3_Scope(response.user) =
               {r \in DOMAIN regions : access_check(regions, r, response.user) = "ok"}

\* a caller who is no admin was listed some region but not every one
C3_Witness ==
    /\ response.op = "list_regions" /\ ~user_is_admin(response.user)
    /\ response.data.data # <<>>
    /\ {response.data.data[i] : i \in DOMAIN response.data.data} # DOMAIN regions

\* the merge of two sub-fields as claimed: per key the sum, the one operand
\* that is there, or None
C7_Get(a, key) == IF a = None \/ key \notin DOMAIN a[1] THEN None ELSE a[1][key]
C7_Keys(a) == IF a = None THEN {} ELSE DOMAIN a[1]
C7_Merge(a, b) ==
    IF a = None /\ b = None THEN None
    ELSE Some([key \in C7_Keys(a) \cup C7_Keys(b) |->
                 LET x == C7_Get(a, key)
                     y == C7_Get(b, key)
                 IN  IF x # None /\ y # None THEN Some(x[1] + y[1])
                     ELSE IF x # None THEN x ELSE y])

\* C7 as claimed: get_all_usage over two regions does not fail, and every
\* sub-field of its 'all' entry holds per key the sum of the two operands, the
\* one operand that is present (also a 0, on either side), or None.
C7_MergeAsClaimed ==
    (response.op = "get_all_usage" /\ Cardinality(DOMAIN regions) = 2) =>
        /\ response.status = "ok"
        /\ \E r1, r2 \in DOMAIN regions :
               /\ r1 # r2
               /\ \A f \in SubFields :
                      response.data.all[f] = C7_Merge(usage[r1][f], usage[r2][f])

\* C8 as claimed: whatever order the scoped regions are folded in,
\* get_all_usage returns the same 'all' entry.
C8_OrderIndependent ==
    response.op = "get_all_usage" =>
        \A order \in Orderings(_query_regions_with_permissions(regions, response.user)) :
            /\ all_usage_result(order).status = response.status
            /\ response.status = "ok" => all_usage_result(order).data.all = response.data.all

\* C9 as claimed: get_all_usage answers 'No regions exist' exactly when the
\* caller's scoped set is empty, and else a payload with an 'all' entry and an
\* entry for every region of the scoped set.
C9_EmptyOrPayload ==
    response.op = "get_all_usage" =>
        LET scoped == _query_regions_with_permissions(regions, response.user) IN
        IF scoped = {} THEN response.status = "NotFound"
        ELSE /\ response.status = "ok"
             /\ DOMAIN response.data.regions = scoped
             /\ DOMAIN response.data.all = SubFields

\* a sub-field that is, in every per-region entry, a mapping with the same keys
\* and a number under each key
C13_Numeric(entries, f) ==
    /\ \A r \in DOMAIN entries : entries[r][f] # None
    /\ \A r1, r2 \in DOMAIN entries : DOMAIN entries[r1][f][1] = DOMAIN entries[r2][f][1]
    /\ \A r \in DOMAIN entries : \A k \in DOMAIN entries[r][f][1] : entries[r][f][1][k] # None

\* the per-key sum of the per-region entries of S
RECURSIVE C13_Sum(_, _, _, _)
C13_Sum(entries, S, f, k) ==
    IF S = {} THEN 0
    ELSE LET r == CHOOSE x \in S : TRUE IN
         entries[r][f][1][k][1] + C13_Sum(entries, S \ {r}, f, k)

\* C13 as claimed: the first region is counted twice, so 'all' exceeds the
\* per-key sum of the per-region entries by the usage of the region the fold
\* started from.
C13_FirstCountedTwice ==
    (response.op = "get_all_usage" /\ response.status = "ok") =>
        LET entries == response.data.regions IN
        \A f \in SubFields :
            C13_Numeric(entries, f) =>
                \E first \in DOMAIN entries :
                    \A k \in DOMAIN entries[first][f][1] :
                        response.data.all[f][1][k] =
                            Some(C13_Sum(entries, DOMAIN entries, f, k)
                                 + entries[first][f][1][k][1])

\* C13: the fold starts from the first region's usage and its loop starts at
\* the second region, so every scoped region enters 'all' once: a sub-field
\* that is in every per-region entry a mapping with the same keys and a number
\* under each key holds in 'all', per key, the sum of the per-region entries.
C13_CountedOnce ==
    (response.op = "get_all_usage" /\ response.status = "ok") =>
        LET entries == response.data.regions IN
        \A f \in SubFields :
            C13_Numeric(entries, f) =>
                /\ response.data.all[f] # None
                /\ \A r \in DOMAIN entries :
                       DOMAIN response.data.all[f][1] = DOMAIN entries[r][f][1]
                /\ \A k \in DOMAIN response.data.all[f][1] :
                       response.data.all[f][1][k] =
                           Some(C13_Sum(entries, DOMAIN entries, f, k))

\* two regions were folded and the user quota of each holds one vcpu
C13_Witness ==
    /\ response.op = "get_all_usage" /\ response.status = "ok"
    /\ Cardinality(DOMAIN response.data.regions) = 2
    /\ C13_Numeric(response.data.regions, "user_quota")
    /\ \A r \in DOMAIN response.data.regions :
           /\ "num_vcpus" \in DOMAIN response.data.regions[r].user_quota[1]
           /\ response.data.regions[r].user_quota[1]["num_vcpus"] = Some(1)
    /\ response.data.all.user_quota[1]["num_vcpus"] = Some(2)

\* whether region r satisfies the filter key with the value supplied
C11_Satisfies(r, key, value) ==
    CASE key = "name" -> ilike(regions[r].name, value)
      [] key = "location" ->
             /\ regions[r].location_id # NULL
             /\ ilike(Location[regions[r].location_id].name, value)
      [] key = "enabled" -> regions[r].enabled = value
      [] key = "reservations_enabled" -> regions[r].reservations_enabled = value
      [] key = "owner_group_id" -> regions[r].owner_group_id = value
      [] key = "owner_group_name" -> Group[regions[r].owner_group_id].name = value
      [] key = "users_group_id" -> regions[r].users_group_id = value
      [] key = "users_group_name" ->
             /\ regions[r].users_group_id # NULL
             /\ Group[regions[r].users_group_id].name = value

\* the scoped regions that satisfy every supplied filter
C11_Filtered(user, filter_) ==
    {r \in C3_Scope(user) :
        \A key \in DOMAIN filter_ : C11_Satisfies(r, key, filter_[key])}

\* C11: for every caller, filter mapping, page and limit, 'data' of
\* list_regions holds only scoped regions that satisfy all supplied filters,
\* each once, as many as the filtered set has from offset page * limit on and
\* at most limit, and 'total' is the number of scoped regions that satisfy all
\* the filters, whatever page and limit are; a region without a location is in
\* the filtered set like any other.
C11_FilterPage ==
    response.op = "list_regions" =>
        LET data == response.data.data
            req == response.data.request
            filtered == C11_Filtered(response.user, req.filter_)
            rest == Cardinality(filtered) - req.page * req.limit
        IN  /\ response.status = "ok"
            /\ \A i \in DOMAIN data : data[i] \in filtered
            /\ \A i, k \in DOMAIN data : i # k => data[i] # data[k]
            /\ Len(data) = IF rest < 0 THEN 0 ELSE IF rest < req.limit THEN rest ELSE req.limit
            /\ response.data.total = Cardinality(filtered)

\* under a name and an enabled filter that two regions satisfy, the second
\* page of one row shows a region without a location
C11_Witness ==
    /\ response.op = "list_regions"
    /\ DOMAIN response.data.request.filter_ = {"name", "enabled"}
    /\ response.data.request.page = 1 /\ response.data.request.limit = 1
    /\ response.data.total = 2
    /\ Len(response.data.data) = 1
    /\ regions[response.data.data[1]].location_id = NULL

\* the association rows of the region that the supplied filters select
C12_Selected(region_id, filter_) ==
    {row \in RowsOfRegion(region_products, region_id) :
        /\ "name" \in DOMAIN filter_ =>
               ilike(products[row.product_id].name, filter_["name"])
        /\ "enabled" \in DOMAIN filter_ =>
               products[row.product_id].enabled = filter_["enabled"]}

\* C12 as claimed: on a region the caller may read, list_region_products
\* returns, with or without a 'name' and an 'enabled' filter, exactly the
\* association rows of that region whose product name matches the pattern and
\* whose product enabled flag equals the value, and every row of the region
\* when no filter is supplied.
C12_FilteredProducts ==
    (/\ response.op = "list_region_products"
     /\ access_check(regions, response.region_id, response.user) = "ok") =>
        /\ response.status = "ok"
        /\ response.data.rows =
               Restrict(region_products,
                        C12_Selected(response.region_id, response.data.request.filter_))

====
